---------------------------- MODULE Spec2Model ----------------------------
(***************************************************************************)
(* A model of the grading worker (worker.py, programming_analyzer.py,      *)
(* theory_analyzer.py): the /process_task handler, the result store it     *)
(* reads and writes, the attachment-to-part mapping, the per-part          *)
(* analyzers, the score aggregation and the output comparator.             *)
(*                                                                         *)
(* Texts are sequences of words (already split on white space), except in  *)
(* the comparator part, where they are sequences of characters.  Scores    *)
(* are exact rationals [n, d] in lowest terms.  Python indices are kept    *)
(* 0-based in mapping, part_results and part_sources.                      *)
(***************************************************************************)
EXTENDS Integers, Sequences, FiniteSets, TLC

VARIABLES
    results,      \* the Firestore collection 'results': doc id -> document
    pc,           \* per request: where process_task stands
    req,          \* per request: the payload and what the download produced
    file_hashes,  \* per request: SHA-256 digests of the downloaded files
    hash_idx,     \* per request: position of the duplicate-check loop
    plag_info,    \* per request: the match found by the duplicate check
    analyzed,     \* per request: attachment indices handed to an analyzer
    evaluation,   \* per request: mapping, part results, final score
    store_failed, \* per request: a store call of this request raised
    written,      \* per request: the document this request stored, and where
    response,     \* per request: the HTTP response
    cmp,          \* the comparator's inputs and verdict
    split         \* a splitter's input, its parts, and the parts of its part

vars == <<results, pc, req, file_hashes, hash_idx, plag_info, analyzed,
          evaluation, store_failed, written, response, cmp, split>>

reqVars == <<results, pc, req, file_hashes, hash_idx, plag_info, analyzed,
             evaluation, store_failed, written, response>>

(***************************************************************************)
(* Bounds of the model.                                                    *)
(***************************************************************************)
MaxAtt == 2       \* attachments in one payload
MaxStr == 2       \* characters of a comparator input
MaxText == 6      \* characters of a question given to its splitter
MaxBlob == 10     \* characters of a code blob given to its splitter

(***************************************************************************)
(* Exact rationals for float scores.                                       *)
(***************************************************************************)
RECURSIVE GCD(_, _)
GCD(a, b) == IF b = 0 THEN a ELSE GCD(b, a % b)

Abs(x) == IF x < 0 THEN -x ELSE x

Rat(n, d) ==
    LET g == GCD(Abs(n), d)
    IN  [n |-> n \div g, d |-> d \div g]

Zero == Rat(0, 1)
One == Rat(1, 1)

RatAdd(a, b) == Rat(a.n * b.d + b.n * a.d, a.d * b.d)
RatDiv(a, k) == Rat(a.n, a.d * k)
RatMul(a, b) == Rat(a.n * b.n, a.d * b.d)
RatLess(a, b) == a.n * b.d < b.n * a.d
RatLeq(a, b) == a.n * b.d <= b.n * a.d
InUnit(a) == RatLeq(Zero, a) /\ RatLeq(a, One)

(***************************************************************************)
(* Small utilities.                                                        *)
(***************************************************************************)
Range(s) == {s[i] : i \in 1..Len(s)}

SeqsUpTo(S, n) == UNION {[1..k -> S] : k \in 0..n}

DigitStr == <<"0", "1", "2", "3", "4", "5", "6", "7", "8", "9">>

\* str(k) for a one-digit k, as the f-strings format it
Str(k) == DigitStr[k + 1]

(***************************************************************************)
(* Texts and tokens (worker.py, helper text processing).                   *)
(***************************************************************************)
_STOPWORDS ==
    {"the", "a", "an", "and", "or", "to", "of", "in", "on", "for", "with",
     "by", "from", "that", "this", "it", "is", "are", "as", "be", "your",
     "student", "write", "implement", "print"}

\* one word lower-cased and with its punctuation replaced by spaces
Lower(w) ==
    CASE w = "Sum" -> "sum"
      [] w = "P1:" -> "p1"
      [] w = "P2:" -> "p2"
      [] w = "P3:" -> "p3"
      [] OTHER -> w

\* token_set: the lower-cased words of the text outside the stop words
token_set(text) == {Lower(w) : w \in Range(text)} \ _STOPWORDS

RECURSIVE Join(_)
\* " ".join(list of word sequences), as one word sequence
Join(ss) == IF ss = <<>> THEN <<>> ELSE Head(ss) \o Join(Tail(ss))

\* A question line is [marker, words]: marker is the enumeration marker at the
\* line start ("" when there is none), words the rest of the line.
LineIsBlank(l) == l.marker = "" /\ l.words = <<>>

\* the line as written: the marker is one word of it
LineText(l) == IF l.marker = "" THEN l.words ELSE <<l.marker>> \o l.words

\* question.strip() as a word sequence
QuestionText(question) == Join([i \in 1..Len(question) |-> LineText(question[i])])

RECURSIVE SplitLines(_, _, _)
\* the loop over the lines: parts so far, the lines of the current part
SplitLines(lines, parts, current) ==
    IF lines = <<>>
    THEN IF current # <<>> THEN Append(parts, Join(current)) ELSE parts
    ELSE LET line == Head(lines)
         IN  IF line.marker # ""
             THEN SplitLines(Tail(lines),
                             IF current # <<>> THEN Append(parts, Join(current))
                                               ELSE parts,
                             <<line.words>>)
             ELSE SplitLines(Tail(lines), parts, Append(current, LineText(line)))

split_question_into_parts(question) ==
    IF \A i \in 1..Len(question) : LineIsBlank(question[i])
    THEN <<QuestionText(question)>>
    ELSE LET lines == SelectSeq(question, LAMBDA l : ~LineIsBlank(l))
             parts == SplitLines(lines, <<>>, <<>>)
             kept == SelectSeq(parts, LAMBDA p : p # <<>>)
         IN  IF Len(parts) <= 1 THEN <<QuestionText(question)>>
             ELSE IF kept # <<>> THEN kept
             ELSE <<QuestionText(question)>>

(***************************************************************************)
(* The result store and the drive.                                         *)
(***************************************************************************)
\* doc_id = f"{course_id}-{student_id}-{assignment_id}"
\* faulty variant of DocId: the student id is left out of the document id
DocIdNoStudent(course_id, student_id, assignment_id) ==
    course_id \o "-" \o assignment_id

DocId(course_id, student_id, assignment_id) ==
    course_id \o "-" \o student_id \o "-" \o assignment_id

\* the drive: file id -> file bytes; get_media of any other id raises
DriveContent == ("d1" :> "B1") @@ ("d2" :> "B1") @@ ("d3" :> "B2")

\* the drive's metadata: file id -> name
DriveName == ("d1" :> "P1.cpp") @@ ("d2" :> "copy.cpp") @@ ("d3" :> "P2.py")

\* hashlib.sha256(file_bytes).hexdigest()
Sha256(bytes) == "sha256(" \o bytes \o ")"

\* doc_ref.set(doc): the document is replaced whole
SetDoc(store, id, doc) == (id :> doc) @@ store

\* .where('assignment_id', '==', a).where('file_hashes', 'array_contains', h)
QueryMatches(store, assignment_id, fhash) ==
    {id \in DOMAIN store :
        /\ store[id].assignment_id = assignment_id
        /\ fhash \in Range(store[id].file_hashes)}

\* a result document without part results (the early exits and the
\* plagiarism exit)
PlainDoc(p, score, justification, debug_info, hashes, plag) ==
    [course_id |-> p.course_id, student_id |-> p.student_id,
     assignment_id |-> p.assignment_id, accuracy_score |-> score,
     justification |-> justification, debug_info |-> debug_info,
     file_hashes |-> hashes, is_plagiarized |-> plag]

PlagiarismJustification == "Plagiarism detected (exact file match)."

(***************************************************************************)
(* Analyzer results.  A result is what the analyzer returned: a dictionary *)
(* or not, with or without a 'score' key, whose value is a number or not.  *)
(***************************************************************************)
Res(score, justification) ==
    [dict |-> TRUE, has_score |-> TRUE, numeric |-> TRUE,
     score |-> score, justification |-> justification]

\* float(result.get('score', 0.0)) raises on a non-dictionary (no .get) and
\* on a score that float() does not take
ScoreRaises(result) == ~result.dict \/ (result.has_score /\ ~result.numeric)

\* float(result.get('score', 0.0))
ScoreOf(result) == IF result.has_score THEN result.score ELSE Zero

(***************************************************************************)
(* theory_analyzer.py.  env is the grading model's behaviour on this call: *)
(* model (the client was configured), fails (generate_content or           *)
(* json.loads raised), value (the parsed JSON of the reply).               *)
(***************************************************************************)
analyze_theory_submission(question, student_answer_ocr, env) ==
    IF ~env.model \/ student_answer_ocr = <<>>
    THEN Res(Zero, "Missing model or student answer.")
    ELSE IF env.fails
    THEN Res(Zero, "AI grading failed.")
    ELSE env.value

(***************************************************************************)
(* programming_analyzer.py.  env is what the code blob and the execution   *)
(* backend do on this call: internal_error (an exception inside the        *)
(* analyzer), expects_input (_has_stdin), docker (_DOCKER_AVAILABLE),      *)
(* runs (per test case: what the container does, status "ran" with the     *)
(* output actual, or "error"), conceptual (the _conceptual_score of the    *)
(* code).  Outputs are sequences of characters.                            *)
(***************************************************************************)
UpperCase == <<"A", "B", "C", "D", "E", "F", "G", "H", "I", "J", "K", "L", "M",
               "N", "O", "P", "Q", "R", "S", "T", "U", "V", "W", "X", "Y", "Z">>
LowerCase == <<"a", "b", "c", "d", "e", "f", "g", "h", "i", "j", "k", "l", "m",
               "n", "o", "p", "q", "r", "s", "t", "u", "v", "w", "x", "y", "z">>
Digits == {"0", "1", "2", "3", "4", "5", "6", "7", "8", "9"}
Whitespace == {" ", "\n", "\t"}

\* str.lower() on one character
CharLower(c) ==
    IF \E i \in DOMAIN UpperCase : UpperCase[i] = c
    THEN LowerCase[CHOOSE i \in DOMAIN UpperCase : UpperCase[i] = c]
    ELSE c

\* str.lower()
StrLower(str) == [i \in 1..Len(str) |-> CharLower(str[i])]

RECURSIVE LStrip(_)
LStrip(str) ==
    IF str # <<>> /\ Head(str) \in Whitespace THEN LStrip(Tail(str)) ELSE str

RECURSIVE RStrip(_)
RStrip(str) ==
    IF str # <<>> /\ str[Len(str)] \in Whitespace
    THEN RStrip(SubSeq(str, 1, Len(str) - 1))
    ELSE str

\* str.strip()
Strip(str) == RStrip(LStrip(str))

\* sub in str
Contains(sub, str) ==
    \E i \in 0..(Len(str) - Len(sub)) : SubSeq(str, i + 1, i + Len(sub)) = sub

RECURSIVE DigitsEnd(_, _)
\* the first position at or after i that holds no digit
DigitsEnd(str, i) ==
    IF i <= Len(str) /\ str[i] \in Digits THEN DigitsEnd(str, i + 1) ELSE i

\* does -?\d+\.?\d* match at position i
NumberAt(str, i) ==
    /\ i <= Len(str)
    /\ \/ str[i] \in Digits
       \/ str[i] = "-" /\ i + 1 <= Len(str) /\ str[i + 1] \in Digits

\* the position after the (greedy) match of -?\d+\.?\d* that starts at i
NumberEnd(str, i) ==
    LET d == DigitsEnd(str, IF str[i] = "-" THEN i + 1 ELSE i)
    IN  IF d <= Len(str) /\ str[d] = "." THEN DigitsEnd(str, d + 1) ELSE d

RECURSIVE FindNumbers(_, _)
\* re.findall(r'-?\d+\.?\d*', str), scanning from position i
FindNumbers(str, i) ==
    IF i > Len(str) THEN <<>>
    ELSE IF NumberAt(str, i)
    THEN <<SubSeq(str, i, NumberEnd(str, i) - 1)>> \o FindNumbers(str, NumberEnd(str, i))
    ELSE FindNumbers(str, i + 1)

_compare_outputs(actual, expected) ==
    LET a == Strip(actual)
        e == Strip(expected)
        a_nums == FindNumbers(a, 1)
        e_nums == FindNumbers(e, 1)
    IN  IF a = e THEN TRUE
        ELSE IF e_nums # <<>> /\ a_nums = e_nums THEN TRUE
        ELSE IF Contains(StrLower(e), StrLower(a)) \/ Contains(StrLower(a), StrLower(e))
        THEN TRUE
        ELSE FALSE

SumWords == {"sum", "add", "plus", "addition", "total"}
ProductWords == {"multiply", "product", "times"}
StringWords == {"palindrome", "reverse", "string"}

\* _generate_test_cases_simple: the expected outputs of the generated cases
\* ("" when the expected output is unknown)
_generate_test_cases_simple(question) ==
    LET q == {Lower(w) : w \in Range(question)}
    IN  IF q \cap SumWords # {} THEN <<<<"5">>, <<"5">>, <<"4">>>>
        ELSE IF q \cap ProductWords # {} THEN <<<<"6">>, <<"0">>, <<"-", "4">>>>
        ELSE IF q \cap StringWords # {}
        THEN <<<<"Y", "E", "S">>, <<"N", "O">>, <<"Y", "E", "S">>>>
        ELSE <<<<>>, <<>>>>

\* one test case of _run_code_in_docker: does it count as passed
TestPassed(expected_output, run) ==
    LET expected == Strip(expected_output)
    IN  /\ run.status = "ran"
        /\ IF expected # <<>> THEN _compare_outputs(run.actual, expected) ELSE TRUE

RECURSIVE PassedUntilError(_, _, _)
\* the test cases passed from case i on, up to the first run that fails
PassedUntilError(test_cases, env, i) ==
    IF i > Len(test_cases) \/ env.runs[i].status # "ran" THEN 0
    ELSE (IF TestPassed(test_cases[i], env.runs[i]) THEN 1 ELSE 0)
         + PassedUntilError(test_cases, env, i + 1)

\* faulty variant of _run_code_in_docker: a failed run ends the loop (break
\* for continue)
_run_code_in_docker_break(test_cases, env) ==
    LET total == Len(test_cases)
    IN  IF total = 0 THEN <<0, 0>>
        ELSE IF ~env.docker THEN <<0, total>>
        ELSE <<PassedUntilError(test_cases, env, 1), total>>

\* _run_code_in_docker: <<passed, total>>
_run_code_in_docker(test_cases, env) ==
    LET total == Len(test_cases)
    IN  IF total = 0 THEN <<0, 0>>
        ELSE IF ~env.docker THEN <<0, total>>
        ELSE <<Cardinality({i \in 1..total : TestPassed(test_cases[i], env.runs[i])}),
               total>>

\* faulty variant of analyze_programming_submission: without Docker the
\* conceptual score is used (the fallback the comment of lines 21-27 speaks of)
analyze_programming_submission_fallback(question, ocr_code, env) ==
    IF env.internal_error
    THEN Res(Zero, "Analyzer internal error")
    ELSE IF ocr_code = <<>>
    THEN Res(Zero, "No code extracted from submission.")
    ELSE IF env.expects_input /\ env.docker
    THEN LET test_cases == _generate_test_cases_simple(question)
             run == _run_code_in_docker(test_cases, env)
         IN  Res(Rat(run[1], run[2]),
                 "Passed " \o Str(run[1]) \o "/" \o Str(run[2]) \o " test cases.")
    ELSE Res(env.conceptual, "Conceptual check")

analyze_programming_submission(question, ocr_code, env) ==
    IF env.internal_error
    THEN Res(Zero, "Analyzer internal error")
    ELSE IF ocr_code = <<>>
    THEN Res(Zero, "No code extracted from submission.")
    ELSE IF env.expects_input
    THEN LET test_cases == _generate_test_cases_simple(question)
             run == _run_code_in_docker(test_cases, env)
         IN  IF test_cases = <<>>
             THEN Res(RatMul(env.conceptual, Rat(1, 2)),
                      "No test cases could be generated.")
             ELSE IF run[2] = 0 THEN Res(Zero, "No runnable test cases.")
             ELSE IF ~env.docker
             THEN Res(Zero, "Docker not available to run tests; could not execute test cases.")
             ELSE Res(Rat(run[1], run[2]),
                      "Passed " \o Str(run[1]) \o "/" \o Str(run[2]) \o " test cases.")
    ELSE Res(env.conceptual, "Conceptual check")

(***************************************************************************)
(* process_task: mapping attachments to question parts (lines 266-291).    *)
(***************************************************************************)
\* len(p_tokens & qt) / max(1, len(qt))
OverlapScore(p_tokens, qt) ==
    Rat(Cardinality(p_tokens \cap qt),
        IF Cardinality(qt) >= 1 THEN Cardinality(qt) ELSE 1)

RECURSIVE BestPart(_, _, _, _, _)
\* the inner loop over the parts j (0-based), keeping the first best score
BestPart(p_tokens, q_tokens, j, best_score, best_j) ==
    IF j >= Len(q_tokens) THEN best_j
    ELSE LET score == OverlapScore(p_tokens, q_tokens[j + 1])
         IN  IF RatLess(best_score, score)
             THEN BestPart(p_tokens, q_tokens, j + 1, score, j)
             ELSE BestPart(p_tokens, q_tokens, j + 1, best_score, best_j)

\* faulty variant of BuildMapping: the 1:1 mapping of equal counts is left out
BuildMappingNoFastPath(ocr_texts, question_parts) ==
    LET q_tokens == [j \in 1..Len(question_parts) |-> token_set(question_parts[j])]
    IN  [i \in 0..(Len(ocr_texts) - 1) |->
            BestPart(token_set(ocr_texts[i + 1]), q_tokens, 0, Rat(-1, 1), 0)]

\* faulty variant of BuildMapping: the 1:1 mapping runs over the parts in
\* reverse order
BuildMappingReversed(ocr_texts, question_parts) ==
    IF Len(ocr_texts) = Len(question_parts)
    THEN [i \in 0..(Len(question_parts) - 1) |-> Len(question_parts) - 1 - i]
    ELSE BuildMappingNoFastPath(ocr_texts, question_parts)

\* mapping: attachment index -> part index
BuildMapping(ocr_texts, question_parts) ==
    LET num_parts == Len(question_parts)
        q_tokens == [j \in 1..num_parts |-> token_set(question_parts[j])]
    IN  IF Len(ocr_texts) = num_parts
        THEN [i \in 0..(num_parts - 1) |-> i]
        ELSE [i \in 0..(Len(ocr_texts) - 1) |->
                BestPart(token_set(ocr_texts[i + 1]), q_tokens, 0, Rat(-1, 1), 0)]

(***************************************************************************)
(* process_task: the analyzers per mapped item (lines 293-319).            *)
(***************************************************************************)
\* the result of one mapped item, the try block and its except included;
\* env.crash is an exception that escapes the analyzer
ItemResult(domain, question_part, ocr_text, name, env) ==
    IF ocr_text = <<>>
    THEN Res(Zero, "Attachment " \o name \o ": OCR returned empty.")
    ELSE IF env.crash
    THEN Res(Zero, "Analyzer error")
    ELSE IF domain = "theory"
    THEN analyze_theory_submission(question_part, ocr_text, env)
    ELSE analyze_programming_submission(question_part, ocr_text, env)

\* part_results[part_index] = result when the part is new or the score higher
KeepResult(part_results, part_index, result) ==
    \/ part_index \notin DOMAIN part_results
    \/ RatLess(ScoreOf(part_results[part_index]), ScoreOf(result))

RECURSIVE AnalyzeLoop(_, _, _, _, _, _)
\* the loop over mapping.items(), from attachment index i on; acc is
\* [part_results, part_sources, calls, raised]: calls are the attachments
\* handed to an analyzer, raised is set when line 315 or 317 raised
AnalyzeLoop(rq, question_parts, mapping, envs, i, acc) ==
    IF i \notin DOMAIN mapping \/ acc.raised THEN acc
    ELSE LET part_index == mapping[i]
             result == ItemResult(rq.domain, question_parts[part_index + 1],
                                  rq.ocr_texts[i + 1], rq.attachment_names[i + 1],
                                  envs[i + 1])
             called == IF rq.ocr_texts[i + 1] # <<>> THEN acc.calls \cup {i}
                       ELSE acc.calls
         IN  IF ScoreRaises(result)
             THEN [acc EXCEPT !.raised = TRUE, !.calls = called]
             ELSE IF KeepResult(acc.part_results, part_index, result)
             THEN AnalyzeLoop(rq, question_parts, mapping, envs, i + 1,
                    [acc EXCEPT
                       !.part_results = (part_index :> result) @@ acc.part_results,
                       !.part_sources = (part_index :> i) @@ acc.part_sources,
                       !.calls = called])
             ELSE AnalyzeLoop(rq, question_parts, mapping, envs, i + 1,
                              [acc EXCEPT !.calls = called])

(***************************************************************************)
(* process_task: missing parts and aggregation (lines 321-341).            *)
(***************************************************************************)
NoSubmission(j) == Res(Zero, "Part " \o Str(j + 1) \o ": No submission found.")

\* faulty variant of FillMissing: range(num_parts + 1), one part too many is filled
FillMissingOneMore(part_results, num_parts) ==
    [j \in (DOMAIN part_results) \cup (0..num_parts) |->
        IF j \in DOMAIN part_results THEN part_results[j] ELSE NoSubmission(j)]

\* for j in range(num_parts): if j not in part_results: explicit 0
FillMissing(part_results, num_parts) ==
    [j \in (DOMAIN part_results) \cup (0..(num_parts - 1)) |->
        IF j \in DOMAIN part_results THEN part_results[j] ELSE NoSubmission(j)]

\* part_sources[j] = None is -1 here
FillSources(part_sources, num_parts) ==
    [j \in (DOMAIN part_sources) \cup (0..(num_parts - 1)) |->
        IF j \in DOMAIN part_sources THEN part_sources[j] ELSE -1]

RECURSIVE SumScores(_, _)
\* sum(part_scores) over the parts 0..k-1
SumScores(part_results, k) ==
    IF k = 0 THEN Zero
    ELSE RatAdd(SumScores(part_results, k - 1), ScoreOf(part_results[k - 1]))

\* faulty variant of FinalScore: the sum is not divided by the number of parts
FinalScoreNoDivision(part_results, num_parts) == SumScores(part_results, num_parts)

\* final_score = sum(part_scores) / len(part_scores) if part_scores else 0.0
FinalScore(part_results, num_parts) ==
    IF num_parts = 0 THEN Zero
    ELSE RatDiv(SumScores(part_results, num_parts), num_parts)

RECURSIVE FinalJustification(_, _, _, _, _)
\* " | ".join of "P{j+1} (from name): justification" for the parts from j on
FinalJustification(part_results, part_sources, names, num_parts, j) ==
    IF j >= num_parts THEN ""
    ELSE LET src_idx == part_sources[j]
             header == "P" \o Str(j + 1) \o
                       (IF src_idx >= 0 /\ src_idx < Len(names) /\ names[src_idx + 1] # ""
                        THEN " (from " \o names[src_idx + 1] \o ")" ELSE "")
         IN  header \o ": " \o part_results[j].justification \o
             (IF j + 1 < num_parts
              THEN " | " \o FinalJustification(part_results, part_sources, names,
                                               num_parts, j + 1)
              ELSE "")

(***************************************************************************)
(* process_task: download and OCR (lines 169-229).  An attachment is       *)
(* [id, title, meta_ok, text]: the drive file id ("" when the attachment   *)
(* carries none), the title in the payload, whether the metadata call      *)
(* succeeds, and the text OCR extracts (<<>> when empty or failed).        *)
(***************************************************************************)
AttachmentName(att) ==
    LET file_title == IF att.title = "" /\ att.meta_ok THEN DriveName[att.id]
                      ELSE att.title
    IN  IF file_title # "" THEN file_title ELSE "file_" \o att.id

RECURSIVE Download(_, _)
\* the loop over the attachments; acc is [ok, file_hashes, ocr_texts,
\* attachment_names], ok turning false when get_media raises
Download(attachments, acc) ==
    IF attachments = <<>> \/ ~acc.ok THEN acc
    ELSE LET att == Head(attachments)
         IN  IF att.id = "" THEN Download(Tail(attachments), acc)
             ELSE IF att.id \notin DOMAIN DriveContent
             THEN [acc EXCEPT !.ok = FALSE]
             ELSE Download(Tail(attachments),
                    [ok |-> TRUE,
                     file_hashes |-> Append(acc.file_hashes, Sha256(DriveContent[att.id])),
                     ocr_texts |-> Append(acc.ocr_texts, att.text),
                     attachment_names |-> Append(acc.attachment_names, AttachmentName(att))])

(***************************************************************************)
(* The requests.  Each request is one execution of process_task; requests  *)
(* may be in flight together.                                              *)
(***************************************************************************)
AllReqs == {"r1", "r2", "r3"}

NoReq ==
    [student_id |-> "", course_id |-> "", assignment_id |-> "", domain |-> "",
     question |-> <<>>, attachments |-> <<>>, ocr_texts |-> <<>>,
     attachment_names |-> <<>>]

NoWrite == [done |-> FALSE, id |-> "", doc |-> PlainDoc(NoReq, Zero, "", "", <<>>, FALSE)]

NoDownload ==
    [ok |-> TRUE, file_hashes |-> <<>>, ocr_texts |-> <<>>, attachment_names |-> <<>>]

NoPlag == [matched_student |-> "", matched_doc_id |-> "", matched_hash |-> ""]

NoEval ==
    [question_parts |-> <<>>, mapping |-> <<>>, part_results |-> <<>>,
     part_sources |-> <<>>, final_score |-> Zero, raised |-> FALSE,
     envs |-> <<>>]

NoCmp == [actual |-> <<>>, expected |-> <<>>, verdict |-> "none"]

NoSplit == [splitter |-> "none", input |-> <<>>, parts |-> <<>>, again |-> <<>>,
            step |-> 0]

InitWorker ==
    /\ results = <<>>
    /\ pc = [r \in AllReqs |-> "new"]
    /\ req = [r \in AllReqs |-> NoReq]
    /\ file_hashes = [r \in AllReqs |-> <<>>]
    /\ hash_idx = [r \in AllReqs |-> 0]
    /\ plag_info = [r \in AllReqs |-> NoPlag]
    /\ analyzed = [r \in AllReqs |-> {}]
    /\ evaluation = [r \in AllReqs |-> NoEval]
    /\ store_failed = [r \in AllReqs |-> FALSE]
    /\ written = [r \in AllReqs |-> NoWrite]
    /\ response = [r \in AllReqs |-> "none"]

Init == InitWorker /\ cmp = NoCmp /\ split = NoSplit

\* doc_ref.set(doc) followed by the return of resp; ok is whether the store
\* accepts the write, on_fail the response when it raises
WriteAndReturn(r, p, doc, resp, on_fail, ok) ==
    LET doc_id == DocId(p.course_id, p.student_id, p.assignment_id)
    IN  /\ results' = IF ok THEN SetDoc(results, doc_id, doc) ELSE results
        /\ written' = IF ok THEN [written EXCEPT ![r] =
                                     [done |-> TRUE, id |-> doc_id, doc |-> doc]]
                       ELSE written
        /\ store_failed' = IF ok THEN store_failed
                           ELSE [store_failed EXCEPT ![r] = TRUE]
        /\ response' = [response EXCEPT ![r] = IF ok THEN resp ELSE on_fail]
        /\ pc' = [pc EXCEPT ![r] = "done"]

\* lines 117-229: validation, drive service, no attachments, download
Receive(r, p) ==
    /\ pc[r] = "new"
    /\ UNCHANGED <<hash_idx, plag_info, analyzed, evaluation, cmp, split>>
    /\ IF p.student_id = "" \/ p.course_id = "" \/ p.assignment_id = ""
          \/ p.credentials = "none"
       THEN /\ response' = [response EXCEPT ![r] = "Missing required fields"]
            /\ pc' = [pc EXCEPT ![r] = "done"]
            /\ UNCHANGED <<results, req, file_hashes, store_failed, written>>
       ELSE IF p.credentials = "bad"
       THEN /\ \E ok \in BOOLEAN :
                 WriteAndReturn(r, p,
                    PlainDoc(p, Zero, "Worker failed to authenticate to Drive.",
                             "credentials error", <<>>, FALSE),
                    "drive auth failed", "unhandled exception", ok)
            /\ UNCHANGED <<req, file_hashes>>
       ELSE IF Len(p.attachments) = 0
       THEN /\ \E ok \in BOOLEAN :
                 WriteAndReturn(r, p,
                    PlainDoc(p, Zero, "No submission found.", "", <<>>, FALSE),
                    "no_attachments", "unhandled exception", ok)
            /\ UNCHANGED <<req, file_hashes>>
       ELSE \E dl \in {Download(p.attachments, NoDownload)} :
                IF ~dl.ok
                THEN /\ \E ok \in BOOLEAN :
                          WriteAndReturn(r, p,
                             PlainDoc(p, Zero, "Worker failed while downloading attachments.",
                                      "download error", dl.file_hashes, FALSE),
                             "download_failed", "unhandled exception", ok)
                     /\ UNCHANGED <<req, file_hashes>>
                ELSE /\ req' = [req EXCEPT ![r] =
                          [student_id |-> p.student_id, course_id |-> p.course_id,
                           assignment_id |-> p.assignment_id, domain |-> p.domain,
                           question |-> p.question, attachments |-> p.attachments,
                           ocr_texts |-> dl.ocr_texts,
                           attachment_names |-> dl.attachment_names]]
                     /\ file_hashes' = [file_hashes EXCEPT ![r] = dl.file_hashes]
                     /\ pc' = [pc EXCEPT ![r] = "check"]
                     /\ UNCHANGED <<results, store_failed, written, response>>

\* json.dumps(plag_info)
PlagDebugInfo(info) ==
    "{matched_student: " \o info.matched_student \o ", matched_doc_id: "
    \o info.matched_doc_id \o ", matched_hash: " \o info.matched_hash \o "}"

\* after the query for one hash found nothing to report: the next hash, or
\* the end of the loop with plag_detected False
NextHash(r) ==
    /\ hash_idx' = [hash_idx EXCEPT ![r] = @ + 1]
    /\ pc' = [pc EXCEPT ![r] =
                IF hash_idx[r] + 1 >= Len(file_hashes[r]) THEN "eval" ELSE "check"]
    /\ UNCHANGED <<plag_info, store_failed>>

\* faulty variant of IsOtherStudent: the student ids are not compared
IsOtherStudentAnyMatch(prev_student, student_id) == prev_student # ""

\* line 241: the matched document belongs to somebody else
IsOtherStudent(prev_student, student_id) ==
    prev_student # "" /\ prev_student # student_id

\* lines 235-248: one iteration of the loop over file_hashes, one query
PlagQuery(r) ==
    /\ pc[r] = "check"
    /\ UNCHANGED <<results, req, file_hashes, analyzed, evaluation, written,
                   response, cmp, split>>
    /\ IF hash_idx[r] >= Len(file_hashes[r])
       THEN /\ pc' = [pc EXCEPT ![r] = "eval"]
            /\ UNCHANGED <<hash_idx, plag_info, store_failed>>
       ELSE LET fhash == file_hashes[r][hash_idx[r] + 1]
                docs == QueryMatches(results, req[r].assignment_id, fhash)
            IN  \/ \* q.stream() raises: the except of line 262
                   /\ store_failed' = [store_failed EXCEPT ![r] = TRUE]
                   /\ pc' = [pc EXCEPT ![r] = "eval"]
                   /\ UNCHANGED <<hash_idx, plag_info>>
                \/ /\ docs = {}
                   /\ NextHash(r)
                \/ \* limit(1): docs[0] is any one of the matching documents
                   \E id \in docs :
                      LET prev_student == results[id].student_id
                      IN  IF IsOtherStudent(prev_student, req[r].student_id)
                          THEN /\ plag_info' = [plag_info EXCEPT ![r] =
                                    [matched_student |-> prev_student,
                                     matched_doc_id |-> id, matched_hash |-> fhash]]
                               /\ pc' = [pc EXCEPT ![r] = "plag_write"]
                               /\ UNCHANGED <<hash_idx, store_failed>>
                          ELSE NextHash(r)

\* lines 249-264: the plagiarism document; a failed write is caught by the
\* except of line 262 and the request goes on to the evaluation
PlagWrite(r) ==
    /\ pc[r] = "plag_write"
    /\ UNCHANGED <<req, file_hashes, hash_idx, plag_info, analyzed, evaluation, cmp,
                   split>>
    /\ \E ok \in BOOLEAN :
          LET doc == PlainDoc(req[r], Zero, PlagiarismJustification,
                              PlagDebugInfo(plag_info[r]), file_hashes[r], TRUE)
              doc_id == DocId(req[r].course_id, req[r].student_id, req[r].assignment_id)
          IN  /\ results' = IF ok THEN SetDoc(results, doc_id, doc) ELSE results
              /\ written' = IF ok THEN [written EXCEPT ![r] =
                                           [done |-> TRUE, id |-> doc_id, doc |-> doc]]
                             ELSE written
              /\ store_failed' = IF ok THEN store_failed
                                 ELSE [store_failed EXCEPT ![r] = TRUE]
              /\ response' = [response EXCEPT ![r] =
                                IF ok THEN "plagiarism_detected" ELSE @]
              /\ pc' = [pc EXCEPT ![r] = IF ok THEN "done" ELSE "eval"]

\* faulty variant of ResultDoc: the hashes are left out of the document
ResultDocNoHashes(rq, hashes, ev, final_justification) ==
    [course_id |-> rq.course_id, student_id |-> rq.student_id,
     assignment_id |-> rq.assignment_id, accuracy_score |-> ev.final_score,
     justification |-> final_justification, part_results |-> ev.part_results,
     part_sources |-> ev.part_sources, file_hashes |-> <<>>,
     is_plagiarized |-> FALSE]

\* lines 343-355: doc_payload
ResultDoc(rq, hashes, ev, final_justification) ==
    [course_id |-> rq.course_id, student_id |-> rq.student_id,
     assignment_id |-> rq.assignment_id, accuracy_score |-> ev.final_score,
     justification |-> final_justification, part_results |-> ev.part_results,
     part_sources |-> ev.part_sources, file_hashes |-> hashes,
     is_plagiarized |-> FALSE]

\* lines 321-341 for the loop's outcome acc: fill, aggregate
Aggregate(question_parts, mapping, acc) ==
    LET num_parts == Len(question_parts)
        part_results == FillMissing(acc.part_results, num_parts)
    IN  [question_parts |-> question_parts, mapping |-> mapping, calls |-> acc.calls,
         part_results |-> IF acc.raised THEN acc.part_results ELSE part_results,
         part_sources |-> IF acc.raised THEN acc.part_sources
                          ELSE FillSources(acc.part_sources, num_parts),
         final_score |-> IF acc.raised THEN Zero
                         ELSE FinalScore(part_results, num_parts),
         raised |-> acc.raised]

\* lines 266-341: split, map, analyze, fill, aggregate
Evaluate(rq, envs) ==
    LET question_parts == split_question_into_parts(rq.question)
        mapping == BuildMapping(rq.ocr_texts, question_parts)
    IN  CHOOSE ev \in {Aggregate(question_parts, mapping, acc) :
                         acc \in {AnalyzeLoop(rq, question_parts, mapping, envs, 0,
                                    [part_results |-> <<>>, part_sources |-> <<>>,
                                     calls |-> {}, raised |-> FALSE])}} : TRUE

\* lines 266-362: the evaluation and the write of the result document; an
\* exception of line 315 or 317 leaves the handler, nothing is written
EvaluateAndSave(r, envs) ==
    /\ pc[r] = "eval"
    /\ UNCHANGED <<req, file_hashes, hash_idx, plag_info, cmp, split>>
    /\ \E ev \in {Evaluate(req[r], envs)} :
           /\ analyzed' = [analyzed EXCEPT ![r] = ev.calls]
           /\ evaluation' = [evaluation EXCEPT ![r] =
                [question_parts |-> ev.question_parts, mapping |-> ev.mapping,
                 part_results |-> ev.part_results, part_sources |-> ev.part_sources,
                 final_score |-> ev.final_score, raised |-> ev.raised,
                 envs |-> envs]]
           /\ IF ev.raised
              THEN /\ response' = [response EXCEPT ![r] = "unhandled exception"]
                   /\ pc' = [pc EXCEPT ![r] = "done"]
                   /\ UNCHANGED <<results, store_failed, written>>
              ELSE \E ok \in BOOLEAN :
                      WriteAndReturn(r, req[r],
                         ResultDoc(req[r], file_hashes[r], ev,
                            FinalJustification(ev.part_results, ev.part_sources,
                               req[r].attachment_names, Len(ev.question_parts), 0)),
                         "processed", "db_write_failed", ok)

(***************************************************************************)
(* The inputs the specifications draw from.                                *)
(***************************************************************************)
Att(id, title, text) == [id |-> id, title |-> title, meta_ok |-> TRUE, text |-> text]

Line(marker, words) == [marker |-> marker, words |-> words]

\* an analyzer environment; the fields an analyzer does not read are fixed
TheoryEnv(crash, model, fails, value) ==
    [crash |-> crash, model |-> model, fails |-> fails, value |-> value,
     internal_error |-> FALSE, expects_input |-> FALSE, docker |-> FALSE,
     runs |-> <<>>, conceptual |-> Zero]

ProgEnv(crash, internal_error, expects_input, docker, runs, conceptual) ==
    [crash |-> crash, model |-> FALSE, fails |-> FALSE, value |-> Res(Zero, ""),
     internal_error |-> internal_error, expects_input |-> expects_input,
     docker |-> docker, runs |-> runs, conceptual |-> conceptual]

\* The requests start in the order r1, r2, r3; r3 is a resubmission: the
\* student, course, assignment and files of r1 again, sent after r1 returned.
MayStart(r, p) ==
    \/ r = "r1"
    \/ r = "r2" /\ pc["r1"] # "new"
    \/ /\ r = "r3" /\ pc["r2"] # "new" /\ pc["r1"] = "done"
       /\ p.credentials = "good"
       /\ p.student_id = req["r1"].student_id
       /\ p.course_id = req["r1"].course_id
       /\ p.assignment_id = req["r1"].assignment_id
       /\ \E dl \in {Download(p.attachments, NoDownload)} :
             dl.ok /\ dl.file_hashes = file_hashes["r1"]

(***************************************************************************)
(* Spec: requests of several students, courses and assignments against one *)
(* store, in flight together; one question, one analyzer behaviour.        *)
(***************************************************************************)
\* <<course_id, student_id, assignment_id>>
StoreIds == {<<"c", "s", "a">>, <<"c", "1-s", "a">>, <<"c-1", "s", "a">>, <<"c", "1-s", "b">>}

A1 == Att("d1", "", <<"sum">>)
A3 == Att("d3", "", <<"sum">>)
AX == Att("dx", "", <<>>)

StoreAttachments == {<<>>, <<A1>>, <<A3>>, <<A3, A1>>, <<A1, AX>>}

StorePayloads ==
    {[student_id |-> ids[2], course_id |-> ids[1], assignment_id |-> ids[3],
      domain |-> "programming", question |-> <<Line("", <<"sum">>)>>,
      attachments |-> atts, credentials |-> cred] :
        ids \in StoreIds, atts \in StoreAttachments, cred \in {"none", "bad", "good"}}

StoreEnv == ProgEnv(FALSE, FALSE, FALSE, FALSE, <<>>, Rat(1, 2))

StoreEnvs(r) == {[i \in 1..Len(req[r].ocr_texts) |-> StoreEnv]}

Next ==
    \E r \in AllReqs :
       \/ \E p \in StorePayloads : MayStart(r, p) /\ Receive(r, p)
       \/ PlagQuery(r)
       \/ PlagWrite(r)
       \/ \E envs \in StoreEnvs(r) : EvaluateAndSave(r, envs)

Spec == Init /\ [][Next]_vars

(***************************************************************************)
(* Properties of the duplicate check and of the store, under Spec.         *)
(***************************************************************************)
\* the stored results of other students, for r's assignment, holding fhash
OtherStudentMatches(r, fhash) ==
    {id \in QueryMatches(results, req[r].assignment_id, fhash) :
        results[id].student_id # req[r].student_id}

\* this step is r's lookup of the hash at hash_idx[r]
Looks(r) ==
    /\ pc[r] = "check"
    /\ hash_idx[r] < Len(file_hashes[r])
    /\ pc'[r] # "check" \/ hash_idx'[r] # hash_idx[r]

IsPlagiarismDoc(d) ==
    /\ d.accuracy_score = Zero
    /\ d.justification = PlagiarismJustification
    /\ d.is_plagiarized

\* the hashes of the files the download loop fetches for these attachments
ExpectedHashes(attachments) ==
    LET fetched == SelectSeq(attachments, LAMBDA a : a.id # "")
    IN  [i \in 1..Len(fetched) |-> Sha256(DriveContent[fetched[i].id])]

\* C1 (as claimed), for the lookups that the store answers without an error: a
\* lookup of a hash that a stored result of another student, for the same
\* assignment, holds, flags the request; and a request answered
\* plagiarism_detected stored the fixed zero-score plagiarism result and called
\* no analyzer.
C1_DuplicateIsFlagged ==
    /\ [][\A r \in AllReqs :
            (/\ Looks(r)
             /\ store_failed'[r] = store_failed[r]
             /\ OtherStudentMatches(r, file_hashes[r][hash_idx[r] + 1]) # {})
            => pc'[r] = "plag_write"]_vars
    /\ [](\A r \in AllReqs :
            response[r] = "plagiarism_detected"
            => /\ written[r].done
               /\ IsPlagiarismDoc(written[r].doc)
               /\ analyzed[r] = {})

\* C2: a lookup made while every stored result of the same assignment that
\* holds one of the request's hashes belongs to the submitting student does not
\* flag the request, which goes on to the next hash or to the evaluation; a
\* request is answered plagiarism_detected only for a match of another student.
C2_ResubmissionNotFlagged ==
    /\ [][\A r \in AllReqs :
            (/\ Looks(r)
             /\ \A h \in Range(file_hashes[r]) : OtherStudentMatches(r, h) = {})
            => /\ pc'[r] \in {"check", "eval"}
               /\ plag_info'[r] = NoPlag]_vars
    /\ [](\A r \in AllReqs :
            response[r] = "plagiarism_detected"
            => plag_info[r].matched_student \notin {"", req[r].student_id})

\* C2's case: the resubmission r3 found the student's own earlier result, no
\* result of another student holds its hashes, and it was evaluated
C2_Witness ==
    /\ response["r1"] = "processed"
    /\ response["r3"] = "processed"
    /\ ~store_failed["r3"]
    /\ file_hashes["r3"] # <<>>
    /\ analyzed["r3"] # {}
    /\ ~written["r3"].doc.is_plagiarized
    /\ \A h \in Range(file_hashes["r3"]) : OtherStudentMatches("r3", h) = {}

\* C3 (as claimed): the write of a request goes to no document of another
\* student; when a submission is flagged and its plagiarism result is written,
\* every stored result of another student, the matched one included, is
\* unchanged.
C3_OtherResultsUnchanged ==
    [][\A r \in AllReqs :
          (pc[r] = "plag_write" /\ response'[r] = "plagiarism_detected")
          => \A id \in DOMAIN results :
                results[id].student_id # req[r].student_id
                => results'[id] = results[id]]_vars

\* C4: a request answered processed stored, under its own document id, a
\* result with its assignment id, its student id, the hash of every file it
\* downloaded and the plagiarism flag false, which the lookup by assignment id
\* and any of these hashes matches.
C4_FingerprintStored ==
    \A r \in AllReqs :
       response[r] = "processed"
       => LET w == written[r]
              hashes == ExpectedHashes(req[r].attachments)
          IN  /\ w.done
              /\ w.id = DocId(req[r].course_id, req[r].student_id, req[r].assignment_id)
              /\ w.doc.assignment_id = req[r].assignment_id
              /\ w.doc.student_id = req[r].student_id
              /\ w.doc.file_hashes = hashes
              /\ ~w.doc.is_plagiarized
              /\ \A i \in 1..Len(hashes) :
                    w.id \in QueryMatches((w.id :> w.doc), req[r].assignment_id, hashes[i])

\* C4's case: a clean evaluation of two downloaded files was stored
C4_Witness ==
    \E r \in AllReqs :
       /\ response[r] = "processed"
       /\ Len(file_hashes[r]) = 2
       /\ results[written[r].id] = written[r].doc

\* the responses that report an error to the caller
ErrorResponses == {"unhandled exception", "db_write_failed"}

\* C13 (as claimed): a step in which a write of the request's result document
\* fails (the early zero-score results, the plagiarism result, the final
\* result) ends the request with an error response and nothing stored; a
\* request that was flagged is never reported as processed.
C13_WriteFailureIsHard ==
    /\ [][\A r \in AllReqs :
            (/\ pc[r] \in {"new", "plag_write", "eval"}
             /\ ~store_failed[r]
             /\ store_failed'[r])
            => /\ pc'[r] = "done"
               /\ response'[r] \in ErrorResponses
               /\ ~written'[r].done]_vars
    /\ [](\A r \in AllReqs :
            (pc[r] = "done" /\ plag_info[r] # NoPlag)
            => response[r] # "processed")

\* requests r and q of two students for the same assignment of the same
\* course, both past validation
Rivals(r, q) ==
    /\ req[r].student_id # "" /\ req[q].student_id # ""
    /\ req[r].student_id # req[q].student_id
    /\ req[r].course_id = req[q].course_id
    /\ req[r].assignment_id = req[q].assignment_id

ReqDocId(r) == DocId(req[r].course_id, req[r].student_id, req[r].assignment_id)

FirstSubmitterResubmits ==
    /\ response["r1"] = "processed"
    /\ ~written["r1"].doc.is_plagiarized
    /\ \A h \in Range(file_hashes["r3"]) :
          \A id \in OtherStudentMatches("r3", h) : results[id].is_plagiarized

\* C19 (as claimed): the resubmission of the first, cleanly graded submitter is
\* not flagged by any lookup, also when flagged results of other students
\* hold the same hash.
C19_FirstSubmitterNotFlagged ==
    [][(Looks("r3") /\ FirstSubmitterResubmits) => pc'["r3"] # "plag_write"]_vars

(***************************************************************************)
(* SpecEval: one request, with the questions, attachment texts and         *)
(* analyzer behaviours that decide the mapping and the scores.             *)
(***************************************************************************)
EvalQuestions ==
    {<<>>,
     <<Line("", <<"sum">>)>>,
     <<Line("P1:", <<"sum">>)>>,
     <<Line("P1:", <<"sum">>), Line("P2:", <<"reverse">>)>>,
     <<Line("", <<"write">>), Line("P1:", <<"reverse">>)>>,
     <<Line("P1:", <<"sum">>), Line("P2:", <<"reverse">>), Line("P3:", <<"multiply">>)>>,
     <<Line("P1:", <<"sum">>), Line("", <<"total">>), Line("P2:", <<>>),
       Line("P3:", <<"reverse">>)>>}

EvalAtts ==
    {Att("d1", "", <<>>), Att("d1", "", <<"Sum">>), Att("d3", "a.py", <<"reverse", "the">>),
     Att("", "", <<"sum">>)}

EvalPayloads ==
    [student_id : {"s"}, course_id : {"c"}, assignment_id : {"a"},
     domain : {"programming", "theory"}, question : EvalQuestions,
     attachments : SeqsUpTo(EvalAtts, MaxAtt), credentials : {"good"}]

\* what json.loads can return for the model's reply
TheoryValues ==
    {Res(Rat(1, 2), "partly right"),
     Res(Rat(2, 1), "excellent"),
     [dict |-> TRUE, has_score |-> FALSE, numeric |-> TRUE, score |-> Zero,
      justification |-> "no score"],
     [dict |-> TRUE, has_score |-> TRUE, numeric |-> FALSE, score |-> Zero,
      justification |-> "score is a word"],
     [dict |-> FALSE, has_score |-> FALSE, numeric |-> FALSE, score |-> Zero,
      justification |-> ""]}

TheoryEnvs ==
    {TheoryEnv(FALSE, TRUE, FALSE, v) : v \in TheoryValues}
    \cup {TheoryEnv(FALSE, TRUE, TRUE, Res(Zero, ""))}

Ran(actual) == [status |-> "ran", actual |-> actual]
RunError == [status |-> "error", actual |-> <<>>]

ProgEnvs ==
    {ProgEnv(FALSE, FALSE, FALSE, TRUE, <<>>, Rat(7, 10)),
     ProgEnv(FALSE, FALSE, TRUE, TRUE, <<RunError, Ran(<<"5">>), Ran(<<"7">>)>>,
             Rat(7, 10)),
     ProgEnv(FALSE, FALSE, TRUE, TRUE, <<RunError, RunError, RunError>>, Rat(7, 10)),
     ProgEnv(FALSE, FALSE, TRUE, FALSE, <<>>, Rat(7, 10)),
     ProgEnv(FALSE, TRUE, FALSE, TRUE, <<>>, Zero),
     ProgEnv(TRUE, FALSE, FALSE, TRUE, <<>>, Zero)}

RECURSIVE EnvSeqs(_, _)
\* one analyzer behaviour per attachment text; an empty text reaches no
\* analyzer, so its behaviour is left fixed
EnvSeqs(texts, domain) ==
    IF texts = <<>> THEN {<<>>}
    ELSE LET envs == IF Head(texts) = <<>> THEN {ProgEnv(FALSE, FALSE, FALSE, FALSE, <<>>, Zero)}
                     ELSE IF domain = "theory" THEN TheoryEnvs ELSE ProgEnvs
         IN  {<<e>> \o rest : e \in envs, rest \in EnvSeqs(Tail(texts), domain)}

EvalEnvs(r) == EnvSeqs(req[r].ocr_texts, req[r].domain)

NextEval ==
    \/ \E p \in EvalPayloads : Receive("r1", p)
    \/ PlagQuery("r1")
    \/ \E envs \in EvalEnvs("r1") : EvaluateAndSave("r1", envs)

SpecEval == Init /\ [][NextEval]_vars

(***************************************************************************)
(* Properties of the mapping, the part results and the score, under        *)
(* SpecEval.                                                               *)
(***************************************************************************)
\* the request went through the evaluation (every question has a part)
Evaluated(r) == pc[r] = "done" /\ evaluation[r].question_parts # <<>>

NumParts(r) == Len(split_question_into_parts(req[r].question))

\* the parts some attachment was mapped to
MappedParts(r) == {evaluation[r].mapping[i] : i \in DOMAIN evaluation[r].mapping}

\* C5: the part results stored by a processed request have one entry for each
\* part index 0..N-1 of the split question and no other entry.
C5_OneResultPerPart ==
    \A r \in AllReqs :
       response[r] = "processed"
       => /\ DOMAIN written[r].doc.part_results = 0..(NumParts(r) - 1)
          /\ DOMAIN written[r].doc.part_sources = 0..(NumParts(r) - 1)

\* C5's case: three parts, two attachments mapped to the same part
C5_Witness ==
    /\ response["r1"] = "processed"
    /\ NumParts("r1") = 3
    /\ DOMAIN evaluation["r1"].mapping = {0, 1}
    /\ evaluation["r1"].mapping[0] = evaluation["r1"].mapping[1]

C7_ScoresInUnitInterval ==
    \A r \in AllReqs :
       response[r] = "processed"
       => /\ InUnit(written[r].doc.accuracy_score)
          /\ \A j \in DOMAIN written[r].doc.part_results :
                InUnit(ScoreOf(written[r].doc.part_results[j]))

\* C8: the final score stored by a processed request is the sum of the N part
\* scores divided by N, and a part no attachment was mapped to has score 0
\* and the "no submission" justification.
C8_FinalScoreIsMean ==
    \A r \in AllReqs :
       response[r] = "processed"
       => LET d == written[r].doc
              N == NumParts(r)
          IN  /\ RatMul(d.accuracy_score, Rat(N, 1)) = SumScores(d.part_results, N)
              /\ \A j \in (0..(N - 1)) \ MappedParts(r) :
                    /\ d.part_results[j].score = Zero
                    /\ d.part_results[j].justification
                          = "Part " \o Str(j + 1) \o ": No submission found."
                    /\ d.part_sources[j] = -1

\* C8's case: three parts, two attachments mapped to different parts, one
\* part without a submission, a positive final score
C8_Witness ==
    /\ response["r1"] = "processed"
    /\ NumParts("r1") = 3
    /\ DOMAIN evaluation["r1"].mapping = {0, 1}
    /\ evaluation["r1"].mapping[0] # evaluation["r1"].mapping[1]
    /\ RatLess(Zero, written["r1"].doc.accuracy_score)

\* C9 (as claimed): a request that reached the evaluation is not aborted by
\* the result of one attachment: every mapped attachment with text reaches an
\* analyzer and every part gets a result.
C9_FailuresIsolated ==
    \A r \in AllReqs :
       Evaluated(r)
       => /\ response[r] \in {"processed", "db_write_failed"}
          /\ analyzed[r] = {i \in DOMAIN evaluation[r].mapping :
                               req[r].ocr_texts[i + 1] # <<>>}
          /\ DOMAIN evaluation[r].part_results = 0..(NumParts(r) - 1)

\* C14: with as many attachments as question parts, attachment i is mapped to
\* part i whatever the token overlaps are, so each part has exactly the one
\* attachment of its own index, and that attachment is the source of the
\* part's result.
C14_EqualCountsMapByPosition ==
    \A r \in AllReqs :
       (Evaluated(r) /\ Len(req[r].ocr_texts) = NumParts(r))
       => /\ \A j \in 0..(NumParts(r) - 1) :
                {i \in DOMAIN evaluation[r].mapping : evaluation[r].mapping[i] = j} = {j}
          /\ ~evaluation[r].raised
             => evaluation[r].part_sources = [j \in 0..(NumParts(r) - 1) |-> j]

\* C14's case: two attachments for two parts, and the text of the first
\* overlaps more with the second part than with the first
C14_Witness ==
    /\ Evaluated("r1")
    /\ ~evaluation["r1"].raised
    /\ NumParts("r1") = 2
    /\ Len(req["r1"].ocr_texts) = 2
    /\ LET parts == split_question_into_parts(req["r1"].question)
           p_tokens == token_set(req["r1"].ocr_texts[1])
       IN  RatLess(OverlapScore(p_tokens, token_set(parts[1])),
                   OverlapScore(p_tokens, token_set(parts[2])))

\* the token overlap of attachment i with part j (both 0-based)
Overlap(r, i, j) ==
    OverlapScore(token_set(req[r].ocr_texts[i + 1]),
                 token_set(split_question_into_parts(req[r].question)[j + 1]))

\* C15 (as claimed): when the counts differ, an attachment is mapped to a part
\* only if their token overlap is at least 0.05, or if no other attachment is
\* mapped to that part.
C15_ThresholdOrFreePart ==
    \A r \in AllReqs :
       (Evaluated(r) /\ Len(req[r].ocr_texts) # NumParts(r))
       => \A i \in DOMAIN evaluation[r].mapping :
             \/ RatLeq(Rat(5, 100), Overlap(r, i, evaluation[r].mapping[i]))
             \/ \A k \in DOMAIN evaluation[r].mapping :
                   k # i => evaluation[r].mapping[k] # evaluation[r].mapping[i]

\* attachment i of a programming request reached the analyzer on the dynamic
\* path: it has text, the code reads standard input, and no exception left or
\* was caught by the analyzer
OnDynamicPath(r, i) ==
    /\ req[r].domain = "programming"
    /\ req[r].ocr_texts[i + 1] # <<>>
    /\ evaluation[r].envs[i + 1].expects_input
    /\ ~evaluation[r].envs[i + 1].crash
    /\ ~evaluation[r].envs[i + 1].internal_error

\* the execution backend is unavailable: the Docker module is missing, or
\* every container start fails
BackendUnavailable(env) ==
    \/ ~env.docker
    \/ \A t \in DOMAIN env.runs : env.runs[t].status = "error"

\* the result of attachment i is the one kept for its part
IsSource(r, i) ==
    /\ evaluation[r].mapping[i] \in DOMAIN evaluation[r].part_sources
    /\ evaluation[r].part_sources[evaluation[r].mapping[i]] = i

C16_ScoreIsPassedOverTotal ==
    \A r \in AllReqs :
       Evaluated(r)
       => \A i \in DOMAIN evaluation[r].mapping :
             (OnDynamicPath(r, i) /\ evaluation[r].envs[i + 1].docker /\ IsSource(r, i))
             => LET j == evaluation[r].mapping[i]
                    runs == evaluation[r].envs[i + 1].runs
                    cases == _generate_test_cases_simple(
                                split_question_into_parts(req[r].question)[j + 1])
                    T == Len(cases)
                    passed == Cardinality(
                                {t \in 1..T :
                                   /\ runs[t].status = "ran"
                                   /\ \/ cases[t] = <<>>
                                      \/ _compare_outputs(runs[t].actual, cases[t])})
                IN  /\ T >= 1
                    /\ evaluation[r].part_results[j].score = Rat(passed, T)
                    /\ evaluation[r].part_results[j].justification
                          = "Passed " \o Str(passed) \o "/" \o Str(T) \o " test cases."

\* C16's case: three test cases, the first run fails, the second passes, the
\* third prints a wrong output: 1/3
C16_Witness ==
    /\ response["r1"] = "processed"
    /\ DOMAIN evaluation["r1"].mapping = {0}
    /\ OnDynamicPath("r1", 0)
    /\ evaluation["r1"].envs[1].docker
    /\ evaluation["r1"].envs[1].runs[1].status = "error"
    /\ evaluation["r1"].envs[1].runs[2].status = "ran"
    /\ written["r1"].doc.part_results[0].score = Rat(1, 3)
    /\ written["r1"].doc.part_results[0].justification = "Passed 1/3 test cases."

(***************************************************************************)
(* The comparison of one test case's output, for every pair of short       *)
(* strings over characters of each kind the comparator tells apart: a      *)
(* digit, the sign, the point, a blank, a letter in both cases.            *)
(***************************************************************************)
CmpChars == {"5", "-", ".", " ", "a", "A"}
CmpStrings == SeqsUpTo(CmpChars, MaxStr)

InitCmp ==
    /\ InitWorker
    /\ split = NoSplit
    /\ cmp \in {[actual |-> a, expected |-> e, verdict |-> "none"] :
                   a \in CmpStrings, e \in CmpStrings}

\* one test case of _run_code_in_docker whose container printed cmp.actual
RunTestCase ==
    /\ cmp.verdict = "none"
    /\ cmp' = [cmp EXCEPT !.verdict =
                  IF TestPassed(cmp.expected, Ran(cmp.actual)) THEN "pass" ELSE "fail"]
    /\ UNCHANGED <<results, pc, req, file_hashes, hash_idx, plag_info, analyzed,
                   evaluation, store_failed, written, response, split>>

NextCmp == RunTestCase

SpecCmp == InitCmp /\ [][NextCmp]_vars

\* stage 1: equal after normalization
EqualNormalized(actual, expected) == Strip(actual) = Strip(expected)

\* stage 2: expected has a numeric token and the lists of tokens are equal
SameNumbers(actual, expected) ==
    /\ FindNumbers(Strip(expected), 1) # <<>>
    /\ FindNumbers(Strip(actual), 1) = FindNumbers(Strip(expected), 1)

\* stage 3: normalized expected is a substring of normalized actual
ExpectedInActual(actual, expected) ==
    Contains(StrLower(Strip(expected)), StrLower(Strip(actual)))

\* C10 (as claimed): a test case with a non-blank expected output passes
\* exactly when one of the three stages matches, and fails for every other
\* pair.
C10_AcceptsOnlyOnAStage ==
    (cmp.verdict # "none" /\ Strip(cmp.expected) # <<>>)
    => (cmp.verdict = "pass"
        <=> \/ EqualNormalized(cmp.actual, cmp.expected)
            \/ SameNumbers(cmp.actual, cmp.expected)
            \/ ExpectedInActual(cmp.actual, cmp.expected))

(***************************************************************************)
(* The two splitters on the characters of their input.                     *)
(***************************************************************************)
Letters == Range(UpperCase) \cup Range(LowerCase)

\* the characters [:.\)] that end a numbered marker
Closers == {":", ".", ")"}

RECURSIVE SkipWhitespace(_, _)
\* the first position at or after i that holds no whitespace (\s*)
SkipWhitespace(str, i) ==
    IF i <= Len(str) /\ str[i] \in Whitespace THEN SkipWhitespace(str, i + 1) ELSE i

\* does the literal sub stand at position i of str, ignoring case
LiteralAt(sub, str, i) ==
    /\ i + Len(sub) - 1 <= Len(str)
    /\ StrLower(SubSeq(str, i, i + Len(sub) - 1)) = StrLower(sub)

\* \d+[:.\)] at position i: the position after the match, 0 without a match
NumberedEnd(str, i) ==
    LET d == DigitsEnd(str, i)
    IN  IF d > i /\ d <= Len(str) /\ str[d] \in Closers THEN d + 1 ELSE 0

\* the position after the match of marker_regex at the start of the line,
\* 0 when the line has no marker; the alternatives are tried in order
MarkerEnd(line) ==
    LET i == SkipWhitespace(line, 1)
        \* P?\s?\d+[:.\)]
        p == IF LiteralAt(<<"P">>, line, i) THEN i + 1 ELSE i
        s == IF p <= Len(line) /\ line[p] \in Whitespace THEN p + 1 ELSE p
        \* Part\s*\d+[:.\)]
        t == IF LiteralAt(<<"P", "a", "r", "t">>, line, i)
             THEN SkipWhitespace(line, i + 4) ELSE 0
    IN  IF NumberedEnd(line, s) > 0 THEN NumberedEnd(line, s)
        ELSE IF t > 0 /\ NumberedEnd(line, t) > 0 THEN NumberedEnd(line, t)
        \* \([a-zA-Z0-9]\)
        ELSE IF /\ i + 2 <= Len(line)
                /\ line[i] = "("
                /\ line[i + 1] \in Letters \cup Digits
                /\ line[i + 2] = ")"
        THEN i + 3
        \* [a-zA-Z]\)
        ELSE IF i + 1 <= Len(line) /\ line[i] \in Letters /\ line[i + 1] = ")"
        THEN i + 2
        \* Q\d+[:.\)]
        ELSE IF LiteralAt(<<"Q">>, line, i) /\ NumberedEnd(line, i + 1) > 0
        THEN NumberedEnd(line, i + 1)
        ELSE 0

RECURSIVE SplitLinesFrom(_, _, _)
\* str.splitlines(): the lines of str from position start, scanning at i
SplitLinesFrom(str, i, start) ==
    IF i > Len(str)
    THEN IF start > Len(str) THEN <<>> ELSE <<SubSeq(str, start, Len(str))>>
    ELSE IF str[i] = "\n"
    THEN <<SubSeq(str, start, i - 1)>> \o SplitLinesFrom(str, i + 1, i + 1)
    ELSE SplitLinesFrom(str, i + 1, start)

RECURSIVE StripEach(_)
\* [p.strip() for p in strs if p.strip()]
StripEach(strs) ==
    IF strs = <<>> THEN <<>>
    ELSE IF Strip(Head(strs)) = <<>> THEN StripEach(Tail(strs))
    ELSE <<Strip(Head(strs))>> \o StripEach(Tail(strs))

\* [l.rstrip() for l in question.splitlines() if l.strip()]
QuestionLines(question) ==
    LET lines == SplitLinesFrom(question, 1, 1)
        kept  == SelectSeq(lines, LAMBDA l : Strip(l) # <<>>)
    IN  [k \in 1..Len(kept) |-> RStrip(kept[k])]

RECURSIVE JoinSpace(_)
\* " ".join(strs)
JoinSpace(strs) ==
    IF strs = <<>> THEN <<>>
    ELSE IF Len(strs) = 1 THEN Head(strs)
    ELSE Head(strs) \o <<" ">> \o JoinSpace(Tail(strs))

RECURSIVE CollectParts(_, _, _)
\* the loop over the lines and the append after it; current holds lines
CollectParts(lines, parts, current) ==
    IF lines = <<>>
    THEN IF current # <<>> THEN Append(parts, Strip(JoinSpace(current))) ELSE parts
    ELSE LET line == Head(lines)
         IN  IF MarkerEnd(line) > 0
             THEN CollectParts(Tail(lines),
                               IF current # <<>>
                               THEN Append(parts, Strip(JoinSpace(current)))
                               ELSE parts,
                               <<Strip(SubSeq(line, MarkerEnd(line), Len(line)))>>)
             ELSE CollectParts(Tail(lines), parts, Append(current, line))

\* split_question_into_parts on the characters of the question
split_question_strings(question) ==
    IF Strip(question) = <<>> THEN <<question>>
    ELSE LET parts == CollectParts(QuestionLines(question), <<>>, <<>>)
             kept  == SelectSeq(parts, LAMBDA p : p # <<>>)
         IN  IF Len(parts) <= 1 THEN <<Strip(question)>>
             ELSE IF kept # <<>> THEN kept
             ELSE <<Strip(question)>>

\* the separators of _split_submission_into_parts, in the order tried: a
\* line of three or more of one character, or a literal
Separators == <<[kind |-> "line", of |-> "-"],
                [kind |-> "line", of |-> "#"],
                [kind |-> "line", of |-> "="],
                [kind |-> "literal",
                 of |-> <<"-", "-", "-", " ", "P", "a", "g", "e", " ",
                          "B", "r", "e", "a", "k", " ", "-", "-", "-">>],
                [kind |-> "literal",
                 of |-> <<"F", "I", "L", "E", "_", "B", "R", "E", "A", "K">>],
                [kind |-> "literal",
                 of |-> <<"-", "-", "-", " ", "F", "I", "L", "E", " ",
                          "B", "R", "E", "A", "K", " ", "-", "-", "-">>]>>

\* the paragraph separator \n\s*\n
BlankLines == [kind |-> "blank", of |-> <<>>]

RECURSIVE RunEnd(_, _, _)
\* the first position at or after i that does not hold the character c
RunEnd(str, c, i) ==
    IF i <= Len(str) /\ str[i] = c THEN RunEnd(str, c, i + 1) ELSE i

\* the position after the match of sep that starts at position i of str, 0
\* without a match there
MatchEnd(sep, str, i) ==
    IF sep.kind = "literal"
    THEN IF LiteralAt(sep.of, str, i) THEN i + Len(sep.of) ELSE 0
    ELSE IF str[i] # "\n" THEN 0
    ELSE IF sep.kind = "line"
    THEN LET e == RunEnd(str, sep.of, i + 1)
         IN  IF e - (i + 1) >= 3 /\ e <= Len(str) /\ str[e] = "\n" THEN e + 1 ELSE 0
    ELSE LET e == SkipWhitespace(str, i + 1)
             newlines == {k \in (i + 1)..(e - 1) : str[k] = "\n"}
         IN  IF newlines = {} THEN 0
             ELSE (CHOOSE k \in newlines : \A m \in newlines : m <= k) + 1

RECURSIVE ReSplit(_, _, _, _)
\* re.split(sep, str): the pieces of str from position start, scanning at i
ReSplit(sep, str, i, start) ==
    IF i > Len(str) THEN <<SubSeq(str, start, Len(str))>>
    ELSE IF MatchEnd(sep, str, i) > 0
    THEN <<SubSeq(str, start, i - 1)>>
         \o ReSplit(sep, str, MatchEnd(sep, str, i), MatchEnd(sep, str, i))
    ELSE ReSplit(sep, str, i + 1, start)

RECURSIVE CountFrom(_, _, _)
\* str.count(sub), counting from position i
CountFrom(sub, str, i) ==
    IF i + Len(sub) - 1 > Len(str) THEN 0
    ELSE IF SubSeq(str, i, i + Len(sub) - 1) = sub
    THEN 1 + CountFrom(sub, str, i + Len(sub))
    ELSE CountFrom(sub, str, i + 1)

RECURSIVE SplitBySeparators(_, _)
\* the loop over the separators: the parts of the first separator that
\* gives more than one, <<>> when none does
SplitBySeparators(code_blob, k) ==
    IF k > Len(Separators) THEN <<>>
    ELSE LET parts == StripEach(ReSplit(Separators[k], code_blob, 1, 1))
         IN  IF Len(parts) > 1 THEN parts
             ELSE SplitBySeparators(code_blob, k + 1)

_split_submission_into_parts(question, code_blob) ==
    IF code_blob = <<>> \/ Strip(code_blob) = <<>> THEN <<>>
    ELSE LET by_sep == SplitBySeparators(code_blob, 1)
             parts  == StripEach(ReSplit(BlankLines, code_blob, 1, 1))
             lower  == StrLower(code_blob)
         IN  IF Len(by_sep) > 1 THEN by_sep
             ELSE IF Len(parts) > 1 THEN parts
             ELSE IF /\ \/ CountFrom(<<"\n", "d", "e", "f", " ">>, code_blob, 1) >= 2
                        \/ CountFrom(<<"\n", "c", "l", "a", "s", "s", " ">>,
                                     code_blob, 1) >= 2
                     /\ Len(parts) > 1
             THEN parts
             ELSE IF /\ CountFrom(<<"i", "n", "t", " ", "m", "a", "i", "n">>, lower, 1)
                        + CountFrom(<<"m", "a", "i", "n", "(">>, lower, 1) >= 2
                     /\ Len(parts) > 1
             THEN parts
             ELSE <<Strip(code_blob)>>

(***************************************************************************)
(* SpecSplit: a splitter is applied to a text, and then to its part when   *)
(* it returned exactly one.                                                *)
(***************************************************************************)
QuestionChars == {"\n", " ", "1", "."}
CodeChars == {"\n", "-", "x"}

\* the question every code blob is split for; the splitter does not read it
SplitQuestion == <<"1", ".">>

InitSplit ==
    /\ InitWorker
    /\ cmp = NoCmp
    /\ split \in {[splitter |-> "question", input |-> q, parts |-> <<>>,
                   again |-> <<>>, step |-> 0] : q \in SeqsUpTo(QuestionChars, MaxText)}
            \cup {[splitter |-> "submission", input |-> b, parts |-> <<>>,
                   again |-> <<>>, step |-> 0] : b \in SeqsUpTo(CodeChars, MaxBlob)}

\* worker.py splits the question of a request
SplitTheQuestion ==
    /\ split.splitter = "question" /\ split.step = 0
    /\ split' = [split EXCEPT !.parts = split_question_strings(split.input),
                              !.step = 1]
    /\ UNCHANGED <<reqVars, cmp>>

\* the single part is given to the splitter as a question
SplitThePart ==
    /\ split.splitter = "question" /\ split.step = 1 /\ Len(split.parts) = 1
    /\ split' = [split EXCEPT !.again = split_question_strings(split.parts[1]),
                              !.step = 2]
    /\ UNCHANGED <<reqVars, cmp>>

\* the programming analyzer splits a code blob
SplitTheSubmission ==
    /\ split.splitter = "submission" /\ split.step = 0
    /\ split' = [split EXCEPT
                    !.parts = _split_submission_into_parts(SplitQuestion, split.input),
                    !.step = 1]
    /\ UNCHANGED <<reqVars, cmp>>

\* the single program is given to the splitter as a code blob
SplitTheProgram ==
    /\ split.splitter = "submission" /\ split.step = 1 /\ Len(split.parts) = 1
    /\ split' = [split EXCEPT
                    !.again = _split_submission_into_parts(SplitQuestion, split.parts[1]),
                    !.step = 2]
    /\ UNCHANGED <<reqVars, cmp>>

NextSplit ==
    \/ SplitTheQuestion
    \/ SplitThePart
    \/ SplitTheSubmission
    \/ SplitTheProgram

SpecSplit == InitSplit /\ [][NextSplit]_vars

\* C18: when a splitter returns exactly one part p for a non-blank text,
\* the same splitter applied to p returns the one-element list of p.
C18_SplitIdempotentOnSinglePart ==
    (split.step = 2 /\ Strip(split.input) # <<>>)
    => split.again = <<split.parts[1]>>

=============================================================================
